---- MODULE Spec2Model ----
(***************************************************************************)
(* One rebalance cycle of awsVolTrade.py (function rebalance) together     *)
(* with the exchange it talks to.                                          *)
(*                                                                         *)
(* Number representation.  The program computes in floating point; the     *)
(* model computes the same expressions exactly, in integers:               *)
(*   - money is in whole KRW;                                              *)
(*   - a quantity of an asset is a whole number of lots, one lot being     *)
(*     ORDER_UNITS[asset] = 1 / UnitDen[asset] of the asset;               *)
(*   - a price is in KRW per whole asset and is a multiple of              *)
(*     UnitDen[asset], so that the price of one lot is a whole number;     *)
(*   - a weight is the fraction num / den;  diff_krw is kept as its        *)
(*     numerator over the same den;                                        *)
(*   - FEE_RATE = 0.0005 is the fraction 1 / FEE_DEN.                      *)
(***************************************************************************)
EXTENDS Integers, Sequences, FiniteSets, TLC

\* ------------------------------------------------------------------ bounds
\* holdings reported by the exchange: 0 .. MaxHold steps of HoldStep lots
MaxHold == 1
\* cash reported by the exchange: 0 .. MaxCash steps of 10000 KRW
MaxCash == 1
\* trailing volatility of an asset: 0 (zero or NaN) .. MaxVol
MaxVol == 2

\* ------------------------------------------------------ program constants
TICKERS == <<"KRW-BTC", "KRW-XRP", "KRW-MANA">>
MIN_ORDER == 5000
FEE_DEN == 2000

Markets == {TICKERS[k] : k \in 1..Len(TICKERS)}

\* t.split('-',1)[1]
AssetOf(t) ==
    CASE t = "KRW-BTC" -> "BTC"
      [] t = "KRW-XRP" -> "XRP"
      [] t = "KRW-MANA" -> "MANA"

Assets == {AssetOf(t) : t \in Markets}

\* ORDER_UNITS[asset] = 1 / UnitDen[asset]
UnitDen == [a \in Assets |->
    CASE a = "BTC" -> 1000000
      [] a = "XRP" -> 10
      [] a = "MANA" -> 10]

\* ------------------------------------------------------------ environment
\* live prices the exchange may quote for a market
PriceSet == [t \in Markets |->
    CASE t = "KRW-BTC" -> {100000000}
      [] t = "KRW-XRP" -> {100010}
      [] t = "KRW-MANA" -> {20000}]

\* upbit.get_current_price(t) when the exchange gives no price for t
None == -1

\* prices at which the exchange may execute an order of a market
FillSet == [t \in Markets |->
    CASE t = "KRW-BTC" -> {100000000}
      [] t = "KRW-XRP" -> {100000, 99990}
      [] t = "KRW-MANA" -> {20000}]

\* balances are reported in steps of HoldStep lots (about 10000 KRW each)
HoldStep == [a \in Assets |->
    CASE a = "BTC" -> 100
      [] a = "XRP" -> 1
      [] a = "MANA" -> 5]

HoldSet(a) == {k * HoldStep[a] : k \in 0..MaxHold}
CashSet == {k * 10000 : k \in 0..MaxCash}
VolSet == 0..MaxVol

Abs(x) == IF x < 0 THEN -x ELSE x

RECURSIVE Factorial(_)
Factorial(n) == IF n <= 1 THEN 1 ELSE n * Factorial(n - 1)

\* common numerator that makes every 1/vol a whole number
InvScale == Factorial(MaxVol)

\* ---------------------------------------------------------- get_tick_price
\* (threshold, tick) with tick = num / den; the steps below threshold 1 are
\* never taken for a whole price >= 1 and are left out
steps == <<
    <<2000000, 1000, 1>>,
    <<1000000,  500, 1>>,
    << 500000,  100, 1>>,
    << 100000,   50, 1>>,
    <<  10000,   10, 1>>,
    <<   1000,    1, 1>>,
    <<    100,    1, 10>>,
    <<     10,    1, 100>>,
    <<      1,    1, 1000>> >>

\* (price // tick) * tick for the first step with price >= threshold;
\* a price below every threshold is 0 here and is returned as it is
get_tick_price(price) ==
    LET hits == {k \in 1..Len(steps) : price >= steps[k][1]}
    IN  IF hits = {} THEN price
        ELSE LET k == CHOOSE m \in hits : \A n \in hits : m <= n
                 num == steps[k][2]
                 den == steps[k][3]
             IN  ((((price * den) \div num) * num) \div den)

\* KRW value of one lot of the asset at the price
LotPrice(a, price) == price \div UnitDen[a]

\* ---------------------------------------------------------- calculate_weight
RECURSIVE SumOver(_, _)
\* sum(f[t] for t in the first n TICKERS)
SumOver(f, n) == IF n = 0 THEN 0 ELSE f[TICKERS[n]] + SumOver(f, n - 1)

\* 1/vol if pd.notna(vol) and vol > 0 else 0, as a multiple of 1/InvScale
inv_vol(v) == IF v > 0 THEN InvScale \div v ELSE 0

\* [v/total if total>0 else 0 for v in inv_vols], weight[t] = num[t] / den
calculate_weight(vols) ==
    LET inv_vols == [t \in Markets |-> inv_vol(vols[t])]
        total == SumOver(inv_vols, Len(TICKERS))
    IN  IF total > 0
        THEN [num |-> inv_vols, den |-> total]
        ELSE [num |-> [t \in Markets |-> 0], den |-> 1]

\* ------------------------------------------------------------------ planning
\* cash + sum(quantities[a] * prices[f"KRW-{a}"] for a in quantities)
PortfolioValue(c, q, pr) ==
    c + SumOver([t \in Markets |-> q[AssetOf(t)] * LotPrice(AssetOf(t), pr[t])],
                Len(TICKERS))

\* quantities.get(asset, 0.0) * price, with price = get_tick_price(prices[t])
prev_val(t, q, pr) == q[AssetOf(t)] * LotPrice(AssetOf(t), get_tick_price(pr[t]))

\* target_val - prev_val, as a numerator over w.den
diff_krw(t, q, pr, pv, w) == pv * w.num[t] - prev_val(t, q, pr) * w.den

\* faulty variant of Skip: the absolute value is forgotten for a negative diff_krw
SkipPositiveOnly(d, den) == d >= 0 /\ d < MIN_ORDER * den

\* abs(diff_krw) < MIN_ORDER, for diff_krw = d / den
Skip(d, den) == Abs(d) < MIN_ORDER * den

\* faulty variant of diff_qty: the quantity is rounded to the nearest lot
diff_qty_nearest(d, den, lot) ==
    LET n == (2 * Abs(d) + den * lot) \div (2 * den * lot)
    IN  IF d > 0 THEN n ELSE -n

\* faulty variant of diff_qty: the quantity is rounded up to the next lot
diff_qty_up(d, den, lot) ==
    LET n == (Abs(d) \div (den * lot)) + 1
    IN  IF d > 0 THEN n ELSE -n

\* math.floor(abs(qty)/unit)*unit * (1 if qty>0 else -1), in lots,
\* for qty = diff_krw / price and diff_krw = d / den
diff_qty(d, den, lot) ==
    LET n == Abs(d) \div (den * lot)
    IN  IF d > 0 THEN n ELSE -n

\* the dict appended to actions for ticker t
Intent(t, q, pr, pv, w) ==
    LET d == diff_krw(t, q, pr, pv, w)
    IN  [ticker |-> t, asset |-> AssetOf(t),
         diff_qty |-> diff_qty(d, w.den, LotPrice(AssetOf(t), get_tick_price(pr[t]))),
         diff_krw |-> d]

\* the list actions after the planning loop
PlanActions(q, pr, pv, w) ==
    LET kept == SelectSeq(TICKERS, LAMBDA t : ~Skip(diff_krw(t, q, pr, pv, w), w.den))
    IN  [k \in 1..Len(kept) |-> Intent(kept[k], q, pr, pv, w)]

\* faulty variant of HasQuotes: a missing price is taken for a number
QuotesAssumed(pr) == TRUE

\* every live price is a number: quantities[a] * prices[f"KRW-{a}"] raises
\* TypeError for a price that is None, whatever the quantity
HasQuotes(pr) == \A t \in Markets : pr[t] # None

\* ----------------------------------------------------------------- execution
\* act["diff_qty"] < 0
IsSell(act) == act.diff_qty < 0

\* faulty variant of IsBuy: every act with a quantity is taken for a BUY
IsNotZero(act) == act.diff_qty # 0

\* act["diff_qty"] > 0
IsBuy(act) == act.diff_qty > 0

\* faulty variant of AfterNoHandle: the same act is tried again
RetrySame(k) == k

\* the index of the act the loop goes on with when place_order returned no
\* uuid: the next one ("if oid: ..." ends the SELL iteration, "if not oid:
\* continue" the BUY iteration)
AfterNoHandle(k) == k + 1

\* faulty variant of Terminal: an order still waiting passes for a finished one
TerminalOrWaiting(state_s) == state_s \in {"done", "cancel", "wait"}

\* state_s in ("done","cancel")
Terminal(state_s) == state_s \in {"done", "cancel"}

\* faulty variant of max_qty: the cash is not reduced by the fee
max_qty_no_fee(c, lot) == c \div lot

\* math.floor(max_gross/price/unit)*unit with max_gross = cash/(1+FEE_RATE), in lots
max_qty(c, lot) == (c * FEE_DEN) \div ((FEE_DEN + 1) * lot)

\* faulty variant of CappedQty: the cap is not applied
Uncapped(q, cap) == q

\* qty after "if qty > max_qty: qty = max_qty"
CappedQty(q, cap) == IF q > cap THEN cap ELSE q

\* quantities[asset] -= executed
SellQuantity(q, executed) == q - executed

\* faulty variant of SellCash: the fee paid is not taken off
SellCashNoFee(c, gross, fee) == c + gross

\* cash += executed * price - fee
SellCash(c, gross, fee) == c + gross - fee

\* quantities[asset] += executed
BuyQuantity(q, executed) == q + executed

\* faulty variant of BuyCash: the cash is not updated after a BUY
BuyCashForgotten(c, gross, fee) == c

\* cash -= executed * price + fee
BuyCash(c, gross, fee) == c - (gross + fee)

\* json.dump(state, f): the content of STATE_FILE after the call
save_state(state) == <<state>>

\* --------------------------------------------------------------------- state
VARIABLES
    balances,         \* exchange: /v1/accounts, "KRW" and the assets (lots)
    prices,           \* exchange: live price per market
    vol,              \* exchange: trailing 20-day volatility per market (0: none)
    orders,           \* exchange: the orders placed, by uuid 1, 2, ...
    pc,               \* position of rebalance()
    quantities, cash, portfolio_value, new_weights, actions, records,
    sell_ids,
    i,                \* index of act in actions (SELL loop, BUY loop)
    j,                \* index of oid in sell_ids (wait loop, record loop)
    oid,              \* uuid of the BUY order being awaited
    logFile,          \* rows of LOG_FILE
    stateFile,        \* content of STATE_FILE
    submitted,        \* history: every place_order call of the cycle
    observed,         \* history: uuids the poll loops saw done or cancel
    reconciled,       \* history: uuids whose fill was recorded
    capped_out        \* history: tickers whose BUY was dropped with qty <= 0

vars == <<balances, prices, vol, orders, pc, quantities, cash, portfolio_value,
          new_weights, actions, records, sell_ids, i, j, oid, logFile, stateFile,
          submitted, observed, reconciled, capped_out>>

exchange == <<balances, prices, vol>>
files == <<logFile, stateFile>>
plan == <<portfolio_value, new_weights, actions>>

Init ==
    /\ balances \in { [k \in Assets \cup {"KRW"} |->
                           CASE k = "KRW" -> c
                             [] k = "BTC" -> hb
                             [] k = "XRP" -> hx
                             [] k = "MANA" -> hm] :
                        c \in CashSet, hb \in HoldSet("BTC"),
                        hx \in HoldSet("XRP"), hm \in HoldSet("MANA") }
    /\ prices \in { f \in [Markets -> {None} \cup UNION {PriceSet[t] : t \in Markets}] :
                      \A t \in Markets : f[t] \in PriceSet[t] \cup {None} }
    /\ vol \in [Markets -> VolSet]
    /\ orders = <<>>
    /\ pc = "start"
    /\ quantities = [a \in Assets |-> 0]
    /\ cash = 0
    /\ portfolio_value = 0
    /\ new_weights = [num |-> [t \in Markets |-> 0], den |-> 1]
    /\ actions = <<>>
    /\ records = <<>>
    /\ sell_ids = <<>>
    /\ i = 1
    /\ j = 1
    /\ oid = 0
    /\ logFile = <<>>
    /\ stateFile = <<>>
    /\ submitted = <<>>
    /\ observed = {}
    /\ reconciled = {}
    /\ capped_out = {}

\* ------------------------------------------------------------------- actions
\* lines 144-186: load_state, live prices, portfolio value, weights, planning
Plan ==
    /\ pc = "start"
    /\ HasQuotes(prices)
    /\ LET q == [a \in Assets |-> balances[a]]
           c == balances["KRW"]
           pv == PortfolioValue(c, q, prices)
           w == calculate_weight(vol)
       IN  /\ quantities' = q
           /\ cash' = c
           /\ portfolio_value' = pv
           /\ new_weights' = w
           /\ actions' = PlanActions(q, prices, pv, w)
    /\ records' = <<>>
    /\ i' = 1
    /\ pc' = "sell"
    /\ UNCHANGED <<exchange, capped_out, orders, sell_ids, j, oid, files, submitted, observed,
                   reconciled>>

\* lines 144-151 with a live price missing: the balances are loaded and the
\* sum of line 151 raises TypeError, which ends the process
MissingQuote ==
    /\ pc = "start"
    /\ ~HasQuotes(prices)
    /\ quantities' = [a \in Assets |-> balances[a]]
    /\ cash' = balances["KRW"]
    /\ pc' = "crashed"
    /\ UNCHANGED <<exchange, capped_out, orders, plan, records, sell_ids, i, j, oid,
                   files, submitted, observed, reconciled>>

\* the order the exchange books for a place_order call that returns a uuid
NewOrder(t, side, volume, funds) ==
    [market |-> t, side |-> side, volume |-> volume, funds |-> funds,
     state |-> "wait", executed_volume |-> 0, paid_fee |-> 0, price |-> 0]

\* the place_order call, as the cycle's history keeps it (uuid 0: none returned)
Call(t, side, volume, funds, uuid) ==
    [ticker |-> t, side |-> side, volume |-> volume, funds |-> funds,
     cash |-> cash, uuid |-> uuid]

\* lines 190-197, act is a SELL and place_order returns a uuid
SellSubmitted ==
    /\ pc = "sell"
    /\ i <= Len(actions)
    /\ IsSell(actions[i])
    /\ LET act == actions[i]
           qty == Abs(act.diff_qty)
           uuid == Len(orders) + 1
       IN  /\ orders' = Append(orders, NewOrder(act.ticker, "ask", qty, 0))
           /\ sell_ids' = Append(sell_ids, uuid)
           /\ submitted' = Append(submitted, Call(act.ticker, "ask", qty, 0, uuid))
    /\ i' = i + 1
    /\ UNCHANGED <<exchange, capped_out, pc, quantities, cash, plan, records, j, oid, files,
                   observed, reconciled>>

\* lines 190-197, act is a SELL and place_order returns no uuid
SellRejected ==
    /\ pc = "sell"
    /\ i <= Len(actions)
    /\ IsSell(actions[i])
    /\ LET act == actions[i]
       IN  submitted' = Append(submitted,
                               Call(act.ticker, "ask", Abs(act.diff_qty), 0, 0))
    /\ i' = AfterNoHandle(i)
    /\ UNCHANGED <<exchange, capped_out, orders, pc, quantities, cash, plan, records, sell_ids,
                   j, oid, files, observed, reconciled>>

\* lines 190-191, act is not a SELL
SellPass ==
    /\ pc = "sell"
    /\ i <= Len(actions)
    /\ ~IsSell(actions[i])
    /\ i' = i + 1
    /\ UNCHANGED <<exchange, capped_out, orders, pc, quantities, cash, plan, records, sell_ids,
                   j, oid, files, submitted, observed, reconciled>>

\* line 190, the SELL loop is over
SellEnd ==
    /\ pc = "sell"
    /\ i > Len(actions)
    /\ pc' = "wait"
    /\ j' = 1
    /\ UNCHANGED <<exchange, capped_out, orders, quantities, cash, plan, records, sell_ids, i,
                   oid, files, submitted, observed, reconciled>>

\* lines 200-207: the poll of sell_ids[j] that sees done or cancel; a poll that
\* sees neither sleeps and polls again, which changes nothing
PollSell ==
    /\ pc = "wait"
    /\ j <= Len(sell_ids)
    /\ Terminal(orders[sell_ids[j]].state)
    /\ observed' = observed \cup {sell_ids[j]}
    /\ j' = j + 1
    /\ UNCHANGED <<exchange, capped_out, orders, pc, quantities, cash, plan, records, sell_ids,
                   i, oid, files, submitted, reconciled>>

\* faulty variant of WaitEnd: the wait loop is left before its last uuid
WaitEndEarly ==
    /\ pc = "wait"
    /\ pc' = "record"
    /\ j' = 1
    /\ UNCHANGED <<exchange, capped_out, orders, quantities, cash, plan, records, sell_ids, i,
                   oid, files, submitted, observed, reconciled>>

\* line 200, the wait loop is over
WaitEnd ==
    /\ pc = "wait"
    /\ j > Len(sell_ids)
    /\ pc' = "record"
    /\ j' = 1
    /\ UNCHANGED <<exchange, capped_out, orders, quantities, cash, plan, records, sell_ids, i,
                   oid, files, submitted, observed, reconciled>>

\* the row appended to records
Record(t, action, status, cash_after) ==
    [ticker |-> t, action |-> action, price |-> status.price,
     qty |-> status.executed_volume, fee |-> status.paid_fee,
     cash_after |-> cash_after, pv |-> portfolio_value]

\* lines 210-222, for sell_ids[j]
ReconcileSell ==
    /\ pc = "record"
    /\ j <= Len(sell_ids)
    /\ LET status == orders[sell_ids[j]]
           t == status.market
           asset == AssetOf(t)
           executed == status.executed_volume
           c == SellCash(cash, executed * LotPrice(asset, status.price),
                         status.paid_fee)
       IN  /\ quantities' = [quantities EXCEPT
                               ![asset] = SellQuantity(quantities[asset], executed)]
           /\ cash' = c
           /\ records' = Append(records, Record(t, "SELL", status, c))
    /\ reconciled' = reconciled \cup {sell_ids[j]}
    /\ j' = j + 1
    /\ UNCHANGED <<exchange, capped_out, orders, pc, plan, sell_ids, i, oid, files, submitted,
                   observed>>

\* line 210, the record loop is over
RecordEnd ==
    /\ pc = "record"
    /\ j > Len(sell_ids)
    /\ pc' = "buy"
    /\ i' = 1
    /\ UNCHANGED <<exchange, capped_out, orders, quantities, cash, plan, records, sell_ids, j,
                   oid, files, submitted, observed, reconciled>>

\* get_tick_price(prices[t]) per lot, for the act of the BUY loop
BuyLot(act) == LotPrice(act.asset, get_tick_price(prices[act.ticker]))

\* lines 228-232: qty of the BUY of act, capped by the cash at hand
BuyQty(act) == CappedQty(act.diff_qty, max_qty(cash, BuyLot(act)))

\* lines 225-226, act is not a BUY
BuyPass ==
    /\ pc = "buy"
    /\ i <= Len(actions)
    /\ ~IsBuy(actions[i])
    /\ i' = i + 1
    /\ UNCHANGED <<exchange, capped_out, orders, pc, quantities, cash, plan, records, sell_ids,
                   j, oid, files, submitted, observed, reconciled>>

\* lines 226-234, act is a BUY whose capped qty is <= 0
BuyNoFunds ==
    /\ pc = "buy"
    /\ i <= Len(actions)
    /\ IsBuy(actions[i])
    /\ BuyQty(actions[i]) <= 0
    /\ capped_out' = capped_out \cup {actions[i].ticker}
    /\ i' = i + 1
    /\ UNCHANGED <<exchange, orders, pc, quantities, cash, plan, records, sell_ids,
                   j, oid, files, submitted, observed, reconciled>>

\* lines 226-240, place_order returns a uuid; int(spend) is spend, a whole number
BuySubmitted ==
    /\ pc = "buy"
    /\ i <= Len(actions)
    /\ IsBuy(actions[i])
    /\ BuyQty(actions[i]) > 0
    /\ LET act == actions[i]
           qty == BuyQty(act)
           spend == qty * BuyLot(act)
           uuid == Len(orders) + 1
       IN  /\ orders' = Append(orders, NewOrder(act.ticker, "bid", 0, spend))
           /\ oid' = uuid
           /\ submitted' = Append(submitted, Call(act.ticker, "bid", qty, spend, uuid))
    /\ pc' = "buywait"
    /\ UNCHANGED <<exchange, capped_out, quantities, cash, plan, records, sell_ids, i, j, files,
                   observed, reconciled>>

\* faulty variant of BuyRejected: the spend is taken off the cash at the call
BuyRejectedDebited ==
    /\ pc = "buy"
    /\ i <= Len(actions)
    /\ IsBuy(actions[i])
    /\ BuyQty(actions[i]) > 0
    /\ LET act == actions[i]
           qty == BuyQty(act)
       IN  /\ submitted' = Append(submitted,
                                  Call(act.ticker, "bid", qty, qty * BuyLot(act), 0))
           /\ cash' = cash - qty * BuyLot(act)
    /\ i' = AfterNoHandle(i)
    /\ UNCHANGED <<exchange, capped_out, orders, pc, quantities, plan, records, sell_ids,
                   j, oid, files, observed, reconciled>>

\* lines 226-240, place_order returns no uuid
BuyRejected ==
    /\ pc = "buy"
    /\ i <= Len(actions)
    /\ IsBuy(actions[i])
    /\ BuyQty(actions[i]) > 0
    /\ LET act == actions[i]
           qty == BuyQty(act)
       IN  submitted' = Append(submitted,
                               Call(act.ticker, "bid", qty, qty * BuyLot(act), 0))
    /\ i' = AfterNoHandle(i)
    /\ UNCHANGED <<exchange, capped_out, orders, pc, quantities, cash, plan, records, sell_ids,
                   j, oid, files, observed, reconciled>>

\* faulty variant of PollBuy: the poll gives up on an order whatever its state
PollBuyTimeout ==
    /\ pc = "buywait"
    /\ observed' = observed \cup {oid}
    /\ pc' = "buyrecord"
    /\ UNCHANGED <<exchange, capped_out, orders, quantities, cash, plan, records, sell_ids, i,
                   j, oid, files, submitted, reconciled>>

\* lines 242-248: the poll of the BUY order that sees done or cancel
PollBuy ==
    /\ pc = "buywait"
    /\ Terminal(orders[oid].state)
    /\ observed' = observed \cup {oid}
    /\ pc' = "buyrecord"
    /\ UNCHANGED <<exchange, capped_out, orders, quantities, cash, plan, records, sell_ids, i,
                   j, oid, files, submitted, reconciled>>

\* lines 250-260
ReconcileBuy ==
    /\ pc = "buyrecord"
    /\ LET status == orders[oid]
           act == actions[i]
           executed == status.executed_volume
           c == BuyCash(cash, executed * LotPrice(act.asset, status.price),
                        status.paid_fee)
       IN  /\ quantities' = [quantities EXCEPT
                               ![act.asset] = BuyQuantity(quantities[act.asset], executed)]
           /\ cash' = c
           /\ records' = Append(records, Record(act.ticker, "BUY", status, c))
    /\ reconciled' = reconciled \cup {oid}
    /\ i' = i + 1
    /\ pc' = "buy"
    /\ UNCHANGED <<exchange, capped_out, orders, plan, sell_ids, j, oid, files, submitted,
                   observed>>

\* lines 262-269: the rows of the cycle are appended to LOG_FILE; STATE_FILE is
\* not written
SaveLogs ==
    /\ pc = "buy"
    /\ i > Len(actions)
    /\ logFile' = logFile \o records
    /\ pc' = "done"
    /\ UNCHANGED <<exchange, capped_out, orders, quantities, cash, plan, records, sell_ids, i,
                   j, oid, stateFile, submitted, observed, reconciled>>

\* ------------------------------------------------------------------ exchange
\* the fee the exchange charges on an executed notional: FEE_RATE of it, in
\* whole KRW
ExchangeFee(gross) == gross \div FEE_DEN

\* the exchange ends order o: done with the whole order executed, or cancel with
\* none or half of it; an ask executes at most its volume, a bid at most its
\* funds
ExchangeFill(o) ==
    /\ orders[o].state = "wait"
    /\ \E p \in FillSet[orders[o].market], state_s \in {"done", "cancel"} :
         LET ord == orders[o]
             lot == LotPrice(AssetOf(ord.market), p)
             whole == IF ord.side = "ask" THEN ord.volume ELSE ord.funds \div lot
         IN  \E executed \in (IF state_s = "done" THEN {whole} ELSE {0, whole \div 2}) :
               orders' = [orders EXCEPT ![o] =
                            [ord EXCEPT !.state = state_s,
                                        !.executed_volume = executed,
                                        !.paid_fee = ExchangeFee(executed * lot),
                                        !.price = p]]
    /\ UNCHANGED <<exchange, capped_out, pc, quantities, cash, plan, records, sell_ids, i, j,
                   oid, files, submitted, observed, reconciled>>

Next ==
    \/ Plan
    \/ MissingQuote
    \/ SellSubmitted
    \/ SellRejected
    \/ SellPass
    \/ SellEnd
    \/ PollSell
    \/ WaitEnd
    \/ ReconcileSell
    \/ RecordEnd
    \/ BuyPass
    \/ BuyNoFunds
    \/ BuySubmitted
    \/ BuyRejected
    \/ PollBuy
    \/ ReconcileBuy
    \/ SaveLogs
    \/ \E o \in 1..Len(orders) : ExchangeFill(o)

Spec == Init /\ [][Next]_vars

\* the exchange ends some order it holds
Exchange == \E o \in 1..Len(orders) : ExchangeFill(o)

\* the cycle under a running interpreter and an exchange that ends every order
\* it holds: rebalance() runs on one thread with nothing to pre-empt it
\* (line 271), and the only step it can wait for is a poll (lines 200-207,
\* 242-248), which an ended order lets through
LiveSpec == Spec /\ WF_vars(Next) /\ WF_vars(Exchange)

\* -------------------------------------------------------------- properties
\* the place_order calls made so far for ticker t
CallsFor(t) == {k \in 1..Len(submitted) : submitted[k].ticker = t}

\* the place_order calls made so far with the side
CallsOf(side) == {k \in 1..Len(submitted) : submitted[k].side = side}

\* the acts planned for ticker t
ActsFor(t) == {k \in 1..Len(actions) : actions[k].ticker = t}

\* the uuids of the orders booked so far with the side
OrdersOf(side) == {o \in 1..Len(orders) : orders[o].side = side}

\* C1: once a BUY has been submitted, every SELL order of the cycle that got a
\* uuid is done or cancel, was seen so by the wait loop and has had its fill
\* recorded into cash and holdings (and is among the uuids waited for)
C1_SellsSettledBeforeBuy ==
    CallsOf("bid") # {} =>
        \A o \in OrdersOf("ask") :
            /\ orders[o].state \in {"done", "cancel"}
            /\ o \in observed
            /\ o \in reconciled
            /\ \E k \in 1..Len(sell_ids) : sell_ids[k] = o

\* C1 witness: a BUY was submitted in a cycle whose SELL got a uuid and executed
C1_Witness ==
    /\ CallsOf("bid") # {}
    /\ \E o \in OrdersOf("ask") : orders[o].executed_volume > 0

\* C2: every BUY call is for a positive quantity, at most the intended one,
\* whose notional at the tick-adjusted price, grossed up by the fee, is at most
\* the cash at the call; a call for less than the intended quantity is for the
\* largest quantity the cash affords
C2_BuyWithinCash ==
    \A k \in CallsOf("bid") :
        LET call == submitted[k]
            lot == LotPrice(AssetOf(call.ticker), get_tick_price(prices[call.ticker]))
        IN  /\ call.volume > 0
            /\ call.funds = call.volume * lot
            /\ call.funds * (FEE_DEN + 1) <= call.cash * FEE_DEN
            /\ \A a \in ActsFor(call.ticker) :
                 /\ call.volume <= actions[a].diff_qty
                 /\ call.volume < actions[a].diff_qty =>
                      (call.volume + 1) * lot * (FEE_DEN + 1) > call.cash * FEE_DEN

\* C2 witness: a BUY call that was clamped below the intended quantity
C2_Witness ==
    \E k \in CallsOf("bid") :
        \E a \in ActsFor(submitted[k].ticker) :
            /\ submitted[k].volume < actions[a].diff_qty
            /\ submitted[k].uuid # 0

\* C3: holdings are never negative, and no SELL call is for more than the
\* holdings the cycle started from
C3_HoldingsNonNegative ==
    /\ \A a \in Assets : quantities[a] >= 0
    /\ \A k \in CallsOf("ask") :
         /\ submitted[k].volume > 0
         /\ submitted[k].volume <= balances[AssetOf(submitted[k].ticker)]

\* C3 witness: a SELL of the whole holding was executed in full and recorded
C3_Witness ==
    \E o \in OrdersOf("ask") :
        /\ o \in reconciled
        /\ orders[o].executed_volume = balances[AssetOf(orders[o].market)]
        /\ quantities[AssetOf(orders[o].market)] = 0

\* C4: cash is never negative: not at the start of the cycle, and not after
\* the record step of any SELL or BUY
C4_CashNonNegative ==
    /\ cash >= 0
    /\ \A k \in 1..Len(records) : records[k].cash_after >= 0

\* C4 witness: a BUY that was executed with a fee left less than 100 KRW of cash
C4_Witness ==
    \E k \in 1..Len(records) :
        /\ records[k].action = "BUY"
        /\ records[k].qty > 0
        /\ records[k].fee > 0
        /\ records[k].cash_after < 100

\* |deltaKRW| of ticker t, times the denominator of the weights
DeltaTimesDen(t) ==
    Abs(portfolio_value * new_weights.num[t]
        - balances[AssetOf(t)] * LotPrice(AssetOf(t), get_tick_price(prices[t]))
          * new_weights.den)

\* C5: a ticker whose |deltaKRW| is below MIN_ORDER has no act and no
\* place_order call in the cycle
C5_NoOrderBelowMinimum ==
    pc # "start" =>
        \A t \in Markets :
            DeltaTimesDen(t) < MIN_ORDER * new_weights.den =>
                /\ ActsFor(t) = {}
                /\ CallsFor(t) = {}

\* C5 witness: a finished cycle that traded one ticker and left alone another
\* whose deltaKRW was below MIN_ORDER but at least the price of one lot
C5_Witness ==
    /\ pc = "done"
    /\ submitted # <<>>
    /\ \E t \in Markets :
         /\ DeltaTimesDen(t) < MIN_ORDER * new_weights.den
         /\ DeltaTimesDen(t) >=
              LotPrice(AssetOf(t), get_tick_price(prices[t])) * new_weights.den

\* C6: when no ticker has a positive volatility, every weight is 0, no order
\* is submitted, and holdings and cash stay what the exchange reported
C6_NoTradeWithoutVolatility ==
    (pc # "start" /\ \A t \in Markets : vol[t] = 0) =>
        /\ \A t \in Markets : new_weights.num[t] = 0
        /\ submitted = <<>>
        /\ quantities = [a \in Assets |-> balances[a]]
        /\ cash = balances["KRW"]

\* an act with a quantity, and the side of the order it asks for
SideOf(act) == IF act.diff_qty < 0 THEN "ask" ELSE "bid"

\* C7 as claimed: at the end of the cycle every act with a non-zero quantity
\* has exactly one place_order call, of its side
C7_ExactlyOneCallPerIntent ==
    pc = "done" =>
        \A k \in 1..Len(actions) :
            actions[k].diff_qty # 0 =>
                /\ Cardinality(CallsFor(actions[k].ticker)) = 1
                /\ \A c \in CallsFor(actions[k].ticker) :
                     submitted[c].side = SideOf(actions[k])

\* C7 as amended: no ticker ever has more than one place_order call, and a call
\* is of the side of the ticker's act; a BUY is dropped only when the cash does
\* not afford one lot of it; at the end of the cycle every act with a non-zero
\* quantity has exactly one call, except a dropped BUY, which has none
C7_OneCallUnlessCappedOut ==
    /\ \A t \in Markets :
         /\ Cardinality(CallsFor(t)) <= 1
         /\ \A c \in CallsFor(t) :
              \E k \in ActsFor(t) :
                  actions[k].diff_qty # 0 /\ submitted[c].side = SideOf(actions[k])
         /\ t \in capped_out =>
              /\ CallsFor(t) = {}
              /\ \E k \in ActsFor(t) : actions[k].diff_qty > 0
              /\ cash * FEE_DEN
                   < (FEE_DEN + 1) * LotPrice(AssetOf(t), get_tick_price(prices[t]))
    /\ pc = "done" =>
         \A k \in 1..Len(actions) :
             (actions[k].diff_qty # 0 /\ actions[k].ticker \notin capped_out) =>
                 Cardinality(CallsFor(actions[k].ticker)) = 1

\* C7 witness: a finished cycle with a SELL call, a BUY call and a dropped BUY
C7_Witness ==
    /\ pc = "done"
    /\ capped_out # {}
    /\ CallsOf("ask") # {}
    /\ CallsOf("bid") # {}

\* C8: at the end of the cycle STATE_FILE holds the cash and the holdings the
\* cycle ended with
C8_StatePersistedAtCompletion ==
    pc = "done" => stateFile = save_state([KRW |-> cash, holdings |-> quantities])

\* the rows of LOG_FILE for ticker t with the action
RowsFor(t, action) ==
    {k \in 1..Len(logFile) : logFile[k].ticker = t /\ logFile[k].action = action}

\* C9: at the end of the cycle LOG_FILE has exactly one HOLD row for every
\* ticker the minimum-order filter skipped, and exactly one row with the side
\* of the order for every order whose fill was recorded
C9_LedgerRowPerHoldAndOrder ==
    pc = "done" =>
        /\ \A t \in Markets :
             DeltaTimesDen(t) < MIN_ORDER * new_weights.den =>
                 Cardinality(RowsFor(t, "HOLD")) = 1
        /\ \A o \in reconciled :
             Cardinality(RowsFor(orders[o].market,
                                 IF orders[o].side = "ask" THEN "SELL" ELSE "BUY")) = 1

RECURSIVE CashEffect(_, _)
\* what the first n rows of records say was added to cash
CashEffect(rows, n) ==
    IF n = 0 THEN 0
    ELSE LET r == rows[n]
             gross == r.qty * LotPrice(AssetOf(r.ticker), r.price)
         IN  CashEffect(rows, n - 1)
             + (IF r.action = "SELL" THEN gross - r.fee ELSE -(gross + r.fee))

\* C10: a place_order call that returned no uuid is the only call for its
\* ticker, books no order, leaves the ticker's holding and the cash as they
\* were (cash is the starting cash plus what the recorded fills added, and
\* every recorded fill is of an order with a uuid), and the cycle goes on: at
\* its end every SELL act has had its call and every BUY act has had its call
\* or was dropped for lack of cash, and every order booked has been waited for
\* and recorded
C10_NoHandleIsSkipped ==
    /\ \A c \in 1..Len(submitted) :
         submitted[c].uuid = 0 =>
             LET t == submitted[c].ticker
             IN  /\ CallsFor(t) = {c}
                 /\ \A o \in 1..Len(orders) : orders[o].market # t
                 /\ quantities[AssetOf(t)] = balances[AssetOf(t)]
                 /\ \A k \in 1..Len(records) : records[k].ticker # t
    /\ pc # "start" => cash = balances["KRW"] + CashEffect(records, Len(records))
    /\ Len(records) = Cardinality(reconciled)
    /\ reconciled \subseteq 1..Len(orders)
    /\ pc = "done" =>
         /\ \A k \in 1..Len(actions) :
              /\ actions[k].diff_qty < 0 => CallsFor(actions[k].ticker) # {}
              /\ actions[k].diff_qty > 0 =>
                   (CallsFor(actions[k].ticker) # {} \/ actions[k].ticker \in capped_out)
         /\ \A o \in 1..Len(orders) :
              /\ orders[o].state \in {"done", "cancel"}
              /\ o \in observed
              /\ o \in reconciled

\* C10 witness: a finished cycle in which a SELL call and a BUY call returned no
\* uuid and a later BUY call returned one and was executed
C10_Witness ==
    /\ pc = "done"
    /\ \E c1, c2, c3 \in 1..Len(submitted) :
         /\ c1 < c3 /\ c2 < c3
         /\ submitted[c1].uuid = 0 /\ submitted[c1].side = "ask"
         /\ submitted[c2].uuid = 0 /\ submitted[c2].side = "bid"
         /\ submitted[c3].uuid # 0
         /\ orders[submitted[c3].uuid].executed_volume > 0

\* C11: in a cycle that starts with the live price of some ticker missing, no
\* order is ever placed or booked, nothing is planned or valued (the missing
\* price is not taken for a number), nothing is logged, and the cycle is at
\* its start or has ended with the balances as the exchange reported them
C11_MissingQuoteAborts ==
    (\E t \in Markets : prices[t] = None) =>
        /\ pc \in {"start", "crashed"}
        /\ submitted = <<>>
        /\ orders = <<>>
        /\ actions = <<>>
        /\ portfolio_value = 0
        /\ logFile = <<>>
        /\ pc = "crashed" =>
             /\ quantities = [a \in Assets |-> balances[a]]
             /\ cash = balances["KRW"]

\* C11 witness: the cycle ended on the missing price of a ticker that is not
\* held, while another ticker is held and has its price
C11_Witness ==
    /\ pc = "crashed"
    /\ \E t, u \in Markets :
         /\ prices[t] = None /\ balances[AssetOf(t)] = 0
         /\ prices[u] # None /\ balances[AssetOf(u)] > 0

RECURSIVE FillCash(_)
\* what the exchange's final status of the recorded orders 1..n adds to cash
FillCash(n) ==
    IF n = 0 THEN 0
    ELSE LET ord == orders[n]
             gross == ord.executed_volume * LotPrice(AssetOf(ord.market), ord.price)
         IN  FillCash(n - 1)
             + (IF n \notin reconciled THEN 0
                ELSE IF ord.side = "ask" THEN gross - ord.paid_fee
                ELSE -(gross + ord.paid_fee))

RECURSIVE FillQuantity(_, _)
\* what the exchange's final status of the recorded orders 1..n adds to the
\* holding of asset a
FillQuantity(a, n) ==
    IF n = 0 THEN 0
    ELSE FillQuantity(a, n - 1)
         + (IF n \notin reconciled \/ AssetOf(orders[n].market) # a THEN 0
            ELSE IF orders[n].side = "ask" THEN -orders[n].executed_volume
            ELSE orders[n].executed_volume)

\* C12: once the balances are loaded, cash and holdings are the loaded
\* balances changed by exactly the executed volume, the executed price and the
\* fee of the final status of every recorded order (a SELL takes the volume and
\* adds volume x price - fee, a BUY adds the volume and takes volume x price +
\* fee), and each row of records carries those three values
C12_ReconcileFromFills ==
    pc # "start" =>
        /\ cash = balances["KRW"] + FillCash(Len(orders))
        /\ \A a \in Assets : quantities[a] = balances[a] + FillQuantity(a, Len(orders))
        /\ \A k \in 1..Len(records) :
             \E o \in reconciled :
                 /\ orders[o].market = records[k].ticker
                 /\ orders[o].executed_volume = records[k].qty
                 /\ orders[o].price = records[k].price
                 /\ orders[o].paid_fee = records[k].fee

\* the quantity and the price the cycle planned for the order of call c
PlannedLot(c) ==
    LotPrice(AssetOf(submitted[c].ticker), get_tick_price(prices[submitted[c].ticker]))

\* C12 witness: a SELL and a BUY were recorded, each cancelled after a part of
\* it was executed at a price other than the planned one, with a fee
C12_Witness ==
    \E c1, c2 \in 1..Len(submitted) :
        /\ submitted[c1].side = "ask" /\ submitted[c2].side = "bid"
        /\ \A c \in {c1, c2} :
             /\ submitted[c].uuid \in reconciled
             /\ LET ord == orders[submitted[c].uuid]
                IN  /\ ord.state = "cancel"
                    /\ ord.executed_volume > 0
                    /\ ord.executed_volume < submitted[c].volume
                    /\ ord.paid_fee > 0
        /\ \E c \in {c1, c2} :
             LotPrice(AssetOf(submitted[c].ticker), orders[submitted[c].uuid].price)
                 # PlannedLot(c)

\* C13: the step that loads the balances sets cash and holdings to what the
\* exchange reported; after it, a step changes cash or a holding only if it
\* is a record step of an order that is done or cancel and was seen so by a
\* poll loop before, and then it leaves the holding of every other asset as
\* it was
C13_OnlyRecordStepsChange ==
    [][ /\ pc = "start" =>
             /\ cash' = balances["KRW"]
             /\ quantities' = [a \in Assets |-> balances[a]]
        /\ (pc # "start" /\ (cash' # cash \/ quantities' # quantities)) =>
             /\ pc \in {"record", "buyrecord"}
             /\ \E o \in observed \ reconciled :
                  /\ orders[o].state \in {"done", "cancel"}
                  /\ reconciled' = reconciled \cup {o}
                  /\ orders' = orders
                  /\ submitted' = submitted
                  /\ \A a \in Assets \ {AssetOf(orders[o].market)} :
                       quantities'[a] = quantities[a] ]_vars

\* C13 witness: a finished cycle that placed a call without uuid, recorded an
\* executed order of one asset and left the positive holding of another alone
C13_Witness ==
    /\ pc = "done"
    /\ \E c \in 1..Len(submitted) : submitted[c].uuid = 0
    /\ \E o \in reconciled :
         /\ orders[o].executed_volume > 0
         /\ \E a \in Assets \ {AssetOf(orders[o].market)} :
              quantities[a] > 0 /\ quantities[a] = balances[a]

RECURSIVE CashOfCallsBefore(_)
\* what the status of the orders booked by the calls 1..n adds to cash
CashOfCallsBefore(n) ==
    IF n = 0 THEN 0
    ELSE CashOfCallsBefore(n - 1)
         + (IF submitted[n].uuid = 0 THEN 0
            ELSE LET ord == orders[submitted[n].uuid]
                     gross == ord.executed_volume
                              * LotPrice(AssetOf(ord.market), ord.price)
                 IN  IF ord.side = "ask" THEN gross - ord.paid_fee
                     ELSE -(gross + ord.paid_fee))

\* C14: at most one BUY order is not done or cancel, and at most one is not
\* recorded: the one booked last, while the cycle waits for it or records
\* it; and the cash a BUY call caps its quantity with is the loaded cash
\* changed by the fills of every order booked before the call
C14_BuysSerialized ==
    /\ Cardinality({o \in OrdersOf("bid") : orders[o].state = "wait"}) <= 1
    /\ \A o \in OrdersOf("bid") :
         (orders[o].state = "wait" \/ o \notin reconciled) =>
             /\ o = Len(orders)
             /\ o = oid
             /\ pc \in {"buywait", "buyrecord"}
    /\ \A c \in CallsOf("bid") :
         submitted[c].cash = balances["KRW"] + CashOfCallsBefore(c - 1)

\* C14 witness: a second BUY was booked after a first BUY that was executed
C14_Witness ==
    \E c1, c2 \in CallsOf("bid") :
        /\ c1 < c2
        /\ submitted[c1].uuid # 0
        /\ submitted[c2].uuid # 0
        /\ orders[submitted[c1].uuid].executed_volume > 0

\* C15: with every order ended by the exchange, a cycle that got its quotes
\* reaches its completion step; and while the order a poll loop waits for is
\* neither done nor cancel, the cycle stays in that loop on that order and
\* makes no place_order call (no timeout, no retry limit, no cancel)
C15_TerminatesWhenExchangeAllows ==
    /\ HasQuotes(prices) ~> pc = "done"
    /\ [][ /\ ( /\ pc = "wait"
                /\ j <= Len(sell_ids)
                /\ orders[sell_ids[j]].state = "wait" ) =>
                  /\ pc' = "wait"
                  /\ j' = j
                  /\ sell_ids' = sell_ids
                  /\ submitted' = submitted
           /\ ( /\ pc = "buywait"
                /\ orders[oid].state = "wait" ) =>
                  /\ pc' = "buywait"
                  /\ oid' = oid
                  /\ i' = i
                  /\ submitted' = submitted ]_vars

\* C15 witness: after its SELLs were recorded the cycle polls a BUY order
\* that the exchange has not ended
C15_Witness ==
    /\ pc = "buywait"
    /\ orders[oid].state = "wait"
    /\ OrdersOf("ask") # {}

\* the orders the exchange holds that it has not ended
Outstanding == {o \in 1..Len(orders) : orders[o].state = "wait"}

\* C16: at the completion step no order of the cycle is outstanding: every
\* place_order call that returned a uuid has an order that is done or cancel,
\* that a poll loop saw so and whose fill has one row in records; the
\* cycle's only call of rebalance (line 271) having returned, nothing it
\* submitted is left for a later call to run into
C16_NothingOutstandingAtCompletion ==
    pc = "done" =>
        /\ Outstanding = {}
        /\ \A c \in 1..Len(submitted) :
             submitted[c].uuid # 0 =>
                 LET o == submitted[c].uuid
                 IN  /\ o \in 1..Len(orders)
                     /\ orders[o].market = submitted[c].ticker
                     /\ orders[o].state \in {"done", "cancel"}
                     /\ o \in observed \cap reconciled
                     /\ Cardinality({k \in 1..Len(records) :
                                       /\ records[k].ticker = submitted[c].ticker
                                       /\ records[k].qty = orders[o].executed_volume}) = 1
        /\ Len(logFile) = Len(records)

\* C16 witness: a finished cycle that had two SELL orders and a BUY order
\* with the exchange
C16_Witness ==
    /\ pc = "done"
    /\ Cardinality(OrdersOf("ask")) >= 2
    /\ OrdersOf("bid") # {}
    /\ \E o \in 1..Len(orders) : orders[o].state = "cancel"

\* the tick-adjusted price of one lot of ticker t
TickLot(t) == LotPrice(AssetOf(t), get_tick_price(prices[t]))

\* C17: the quantity of an act is the whole number of lots in
\* |diff_krw| / price, with the sign of diff_krw (|quantized| <= |raw| <
\* |quantized| + one lot); the quantity of a BUY call is that of its act or,
\* when that is more than the cash affords, the whole number of lots in
\* cash / (1 + FEE_RATE) / price; and the funds of the call pay for exactly
\* that many lots
C17_TruncatedToLots ==
    /\ \A k \in 1..Len(actions) :
         LET act == actions[k]
             lot_krw == new_weights.den * TickLot(act.ticker)
         IN  /\ Abs(act.diff_qty) * lot_krw <= Abs(act.diff_krw)
             /\ Abs(act.diff_krw) < (Abs(act.diff_qty) + 1) * lot_krw
             /\ act.diff_krw > 0 => act.diff_qty >= 0
             /\ act.diff_krw < 0 => act.diff_qty <= 0
    /\ \A c \in CallsOf("bid") :
         \E k \in ActsFor(submitted[c].ticker) :
             LET qty == submitted[c].volume
                 lot == TickLot(submitted[c].ticker)
             IN  /\ qty \in 1..actions[k].diff_qty
                 /\ submitted[c].funds = qty * lot
                 /\ qty < actions[k].diff_qty =>
                      /\ qty * lot * (FEE_DEN + 1) <= submitted[c].cash * FEE_DEN
                      /\ submitted[c].cash * FEE_DEN < (qty + 1) * lot * (FEE_DEN + 1)

\* C17 witness: an act whose raw quantity was not a whole number of lots, and a
\* BUY call of fewer lots than its act
C17_Witness ==
    /\ \E k \in 1..Len(actions) :
         /\ actions[k].diff_qty < 0
         /\ Abs(actions[k].diff_krw) % (new_weights.den * TickLot(actions[k].ticker)) # 0
    /\ \E c \in CallsOf("bid") :
         \E k \in ActsFor(submitted[c].ticker) :
             /\ Abs(actions[k].diff_krw) % (new_weights.den * TickLot(actions[k].ticker)) # 0
             /\ submitted[c].volume < actions[k].diff_qty

\* C18 as claimed: the quantity of an act is the whole number of lots in the
\* fee-grossed raw quantity (|diff_krw| / (1 - FEE_RATE)) / price, with the
\* sign of diff_krw
C18_FeeGrossedQuantity ==
    \A k \in 1..Len(actions) :
        LET act == actions[k]
            lot_krw == new_weights.den * TickLot(act.ticker)
            n == (Abs(act.diff_krw) * FEE_DEN) \div ((FEE_DEN - 1) * lot_krw)
        IN  act.diff_qty = IF act.diff_krw > 0 THEN n ELSE -n

\* C19 as claimed: the portfolio value, the current value behind diff_krw and
\* the spend of a BUY all take an asset at its tick-adjusted price
C19_TickPriceEverywhere ==
    pc \notin {"start", "crashed"} =>
        /\ portfolio_value =
             balances["KRW"]
             + SumOver([t \in Markets |-> balances[AssetOf(t)] * TickLot(t)],
                       Len(TICKERS))
        /\ \A k \in 1..Len(actions) :
             LET t == actions[k].ticker
             IN  actions[k].diff_krw =
                     portfolio_value * new_weights.num[t]
                     - balances[AssetOf(t)] * TickLot(t) * new_weights.den
        /\ \A c \in CallsOf("bid") :
             submitted[c].funds = submitted[c].volume * TickLot(submitted[c].ticker)

\* C20 as claimed: every order the exchange booked is worth at least
\* MIN_ORDER at the tick-adjusted price: the volume of a SELL times the
\* price, the funds of a BUY
C20_SubmittedNotionalAtLeastMinimum ==
    \A c \in 1..Len(submitted) :
        submitted[c].uuid # 0 =>
            IF submitted[c].side = "ask"
            THEN submitted[c].volume * TickLot(submitted[c].ticker) >= MIN_ORDER
            ELSE submitted[c].funds >= MIN_ORDER

====
